---- MODULE Spec2Model ----
(***************************************************************************)
(* A model of worldsheight.py: a bounding box is projected on a tangent    *)
(* plane, sampled on a grid, every grid point is sent to an elevation      *)
(* service in batches, and the answers are rendered as a grayscale image.  *)
(*                                                                         *)
(* Numbers.  Python floats are modelled in two ways:                       *)
(*   - the quantities the resolution correction compares and rounds (step, *)
(*     width / step_corrected, ...) are exact rationals <<n, d>>, d > 0;   *)
(*   - the quantities that go through sin, cos and asin are fixed-point    *)
(*     integers with Unit = 10^5 units per 1.0 (kilometres, radians,       *)
(*     degrees and plain ratios alike), kept within 32 bits.               *)
(* Python indexes from 0 and TLA+ sequences from 1: cell (i, j) of an      *)
(* array of the program is arr[i + 1][j + 1] here, and p[0], p[1] of a     *)
(* point are p[1], p[2].                                                   *)
(***************************************************************************)
EXTENDS Integers, Sequences, FiniteSets

(***************************************************************************)
(* Bounds of the model.                                                    *)
(***************************************************************************)
\* the largest plane extent drawn, in sampling steps of 250 m
MaxSide == 50
\* the stub service's terrains are 0 (flat) .. MaxTerrain
MaxTerrain == 2

(***************************************************************************)
(* Integer helpers.                                                        *)
(***************************************************************************)
Abs(a) == IF a < 0 THEN -a ELSE a

Sgn(a) == IF a < 0 THEN -1 ELSE 1

Min(a, b) == IF a <= b THEN a ELSE b

RECURSIVE GCD(_, _)
GCD(a, b) == IF b = 0 THEN a ELSE GCD(b, a % b)

\* <<q, r>> with a * m = q * d + r and 0 <= r < d, for a, m >= 0 and d > 0;
\* no intermediate value exceeds 2 * d + a.
RECURSIVE MulDivQR(_, _, _)
MulDivQR(a, m, d) ==
    IF m = 0 THEN <<0, 0>>
    ELSE LET h  == MulDivQR(a, m \div 2, d)
             c2 == IF 2 * h[2] >= d THEN 1 ELSE 0
             q2 == 2 * h[1] + c2
             r2 == 2 * h[2] - c2 * d
             ra == r2 + (a % d)
             ca == IF ra >= d THEN 1 ELSE 0
         IN  IF m % 2 = 0 THEN <<q2, r2>>
             ELSE <<q2 + (a \div d) + ca, ra - ca * d>>

\* a * b / d, truncated towards zero
MulDiv(a, b, d) ==
    Sgn(a) * Sgn(b) * Sgn(d) * MulDivQR(Abs(a), Abs(b), Abs(d))[1]

(***************************************************************************)
(* Fixed-point floats: the integer v stands for v / Unit.                  *)
(***************************************************************************)
Unit == 100 * 1000

\* a * b / Unit truncated towards zero, the product split so that no
\* intermediate value leaves 32 bits
FMul(a, b) ==
    LET ah == Abs(a) \div Unit
        al == Abs(a) % Unit
        bh == Abs(b) \div Unit
        bl == Abs(b) % Unit
        lo == ((al \div 1000) * bl * 10 + ((al % 1000) * bl) \div 100) \div 1000
    IN  Sgn(a) * Sgn(b) * (ah * bh * Unit + ah * bl + al * bh + lo)

FDiv(a, b) == MulDiv(a, Unit, b)

\* math.pi
Pi == 314159

\* the Taylor series shared by math.sin and math.cos: term is the current
\* term, of degree k, and x2 the square of the argument
RECURSIVE TrigSeries(_, _, _, _)
TrigSeries(x2, term, k, acc) ==
    IF term = 0 THEN acc
    ELSE TrigSeries(x2, -(FMul(term, x2) \div ((k + 1) * (k + 2))), k + 2, acc + term)

\* math.sin
Sin(x) == TrigSeries(FMul(x, x), x, 1, 0)

\* math.cos
Cos(x) == TrigSeries(FMul(x, x), Unit, 0, 0)

\* math.asin raises ValueError ("math domain error") outside [-1, 1]
AsinDefined(z) == Abs(z) <= Unit

\* math.asin inside its domain: z + z^3/6 + 3 z^5/40 + ...
RECURSIVE AsinSeries(_, _, _, _)
AsinSeries(z2, term, n, acc) ==
    IF term = 0 THEN acc
    ELSE AsinSeries(z2,
                    (FMul(term, z2) * (2 * n - 1) * (2 * n - 1))
                        \div ((2 * n) * (2 * n + 1)),
                    n + 1, acc + term)

Asin(z) == Sgn(z) * AsinSeries(FMul(z, z), Abs(z), 1, 0)

(***************************************************************************)
(* Exact rationals <<n, d>> with d > 0, in lowest terms.                   *)
(***************************************************************************)
Rat(n, d) ==
    LET g == GCD(Abs(n), Abs(d))
    IN  <<(Sgn(d) * n) \div g, Abs(d) \div g>>

RatOfInt(k) == <<k, 1>>

RatMul(a, b) == Rat(a[1] * b[1], a[2] * b[2])

\* a / b for b # 0
RatDiv(a, b) == Rat(a[1] * b[2], a[2] * b[1])

RatLess(a, b) == a[1] * b[2] < b[1] * a[2]

\* Python's round(float): to the nearest integer, a tie to the even one
Round(a) ==
    LET q == a[1] \div a[2]
        r == a[1] % a[2]
    IN  IF 2 * r < a[2] THEN q
        ELSE IF 2 * r > a[2] THEN q + 1
        ELSE IF q % 2 = 0 THEN q ELSE q + 1

\* Python's int(float): truncation towards zero
Trunc(a) == Sgn(a[1]) * (Abs(a[1]) \div a[2])

\* the fixed-point value of a rational
Fixed(a) == MulDiv(a[1], Unit, a[2])

\* the rational value of a fixed-point number
RatOfFixed(v) == Rat(v, Unit)

(***************************************************************************)
(* Unit conversion and the geodesic projection.                            *)
(***************************************************************************)
to_degrees(radians) == FDiv(radians, Pi) * 180

earth_flatness == FDiv(Unit, 29825700)

r_a == 637813630

\* (1.0 - earth_flatness * (math.sin(phi)**2))*r_a
LocalRadius(phi) ==
    LET sin_phi == Sin(phi)
    IN  FMul(Unit - FMul(earth_flatness, FMul(sin_phi, sin_phi)), r_a)

\* The locals of plane_to_earth, in the order the code computes them.  raises
\* says whether the call raises: ZeroDivisionError on a zero radius,
\* ValueError ("math domain error") from math.asin outside [-1, 1].
P2E_locals(plane_center_on_earth_, point_on_plane) ==
    LET earth_local_radius == LocalRadius(point_on_plane[1])
        latitude_radius    == FMul(earth_local_radius, Cos(plane_center_on_earth_[1]))
        lon_arg            == FDiv(point_on_plane[1], latitude_radius)
        d_longitude        == Asin(lon_arg)
        lat_arg            == FDiv(point_on_plane[2]
                                     - FMul(FMul(Unit - Cos(d_longitude),
                                                 Sin(plane_center_on_earth_[1])),
                                            latitude_radius),
                                   earth_local_radius)
        d_latitude         == Asin(lat_arg)
        raises             == \/ latitude_radius = 0
                              \/ ~AsinDefined(lon_arg)
                              \/ earth_local_radius = 0
                              \/ ~AsinDefined(lat_arg)
    IN  [earth_local_radius |-> earth_local_radius,
         latitude_radius    |-> latitude_radius,
         raises             |-> raises,
         result             |-> IF raises THEN <<0, 0>>
                                ELSE <<plane_center_on_earth_[1] + d_latitude,
                                       plane_center_on_earth_[2] + d_longitude>>]

plane_to_earth(plane_center_on_earth_, point_on_plane) ==
    P2E_locals(plane_center_on_earth_, point_on_plane).result

P2E_raises(plane_center_on_earth_, point_on_plane) ==
    P2E_locals(plane_center_on_earth_, point_on_plane).raises

(***************************************************************************)
(* The pure parts of main and request_heights.                             *)
(***************************************************************************)
elevation_data_meters_per_pixel == 250

num_locations_at_once == 1000

\* step = width / heightmap_width_pixels, for heightmap_width_pixels # 0
Step(width, width_pixels) == RatDiv(RatOfFixed(width), RatOfInt(width_pixels))

\* NeedsCorrection with the conversion from kilometres to metres forgotten
NeedsCorrection_NoConversion(step_) ==
    RatLess(step_, RatOfInt(elevation_data_meters_per_pixel))

\* step*1000 < elevation_data_meters_per_pixel
NeedsCorrection(step_) ==
    RatLess(RatMul(step_, RatOfInt(1000)), RatOfInt(elevation_data_meters_per_pixel))

StepCorrected(step_) ==
    IF NeedsCorrection(step_)
    THEN RatDiv(RatOfInt(elevation_data_meters_per_pixel), RatOfInt(1000))
    ELSE step_

WidthPixelsCorrected(width, width_pixels, step_) ==
    IF NeedsCorrection(step_)
    THEN Round(RatDiv(RatOfFixed(width), StepCorrected(step_)))
    ELSE width_pixels

\* height_corrected = round(height / step_corrected) * step_corrected
\* heightmap_height_pixels = int(height_corrected / step_corrected)
HeightPixels(height, step_corrected_) ==
    LET height_corrected ==
            RatMul(RatOfInt(Round(RatDiv(RatOfFixed(height), step_corrected_))),
                   step_corrected_)
    IN  Trunc(RatDiv(height_corrected, step_corrected_))

\* the plane point of grid cell (i, j)
CellPoint(bottom_left, step_corrected_, i, j) ==
    <<bottom_left[1] + Fixed(RatMul(RatOfInt(i), step_corrected_)),
      bottom_left[2] + Fixed(RatMul(RatOfInt(j), step_corrected_))>>

\* the location request_heights builds for one cell of mapping
Location(geo) == [latitude |-> to_degrees(geo[1]), longitude |-> to_degrees(geo[2])]

\* all_locations after the loops over x (outer) and y (inner): the cell (x, y)
\* is appended as element x * shape[1] + y
AllLocations(mapping_) ==
    [n \in 1..(mapping_.shape[1] * mapping_.shape[2]) |->
        Location(mapping_.data[((n - 1) \div mapping_.shape[2]) + 1]
                              [((n - 1) % mapping_.shape[2]) + 1])]

\* IsEmpty with the early return lost
IsEmpty_Never(all_locations_) == FALSE

\* len(all_locations) == 0
IsEmpty(all_locations_) == Len(all_locations_) = 0

\* BlockSize without the cap of num_locations_at_once
BlockSize_NoCap(num_locations_, cur_loc_) == num_locations_ - cur_loc_

\* block_size = min(num_locations_at_once, num_locations - cur_loc)
BlockSize(num_locations_, cur_loc_) ==
    Min(num_locations_at_once, num_locations_ - cur_loc_)

\* block = all_locations[cur_loc : cur_loc + block_size]
Block(all_locations_, cur_loc_, block_size) ==
    SubSeq(all_locations_, cur_loc_ + 1, Min(cur_loc_ + block_size, Len(all_locations_)))

\* the next value of range(0, num_locations, num_locations_at_once)
NextLoc(cur_loc_) == cur_loc_ + num_locations_at_once

\* Indx with the stride taken from the wrong axis
Indx_WrongAxis(x, y, shape) == x * shape[1] + y

\* indx = x*mapping.shape[1] + y
Indx(x, y, shape) == x * shape[2] + y

\* elevations[x, y] = elevations_list[indx]
Elevations(shape, elevations_list_) ==
    [i \in 1..shape[1] |->
        [j \in 1..shape[2] |-> elevations_list_[Indx(i - 1, j - 1, shape) + 1]]]

\* the cells of a 2D array, as a set of values
Cells(arr) == {arr[i][j] : i \in 1..Len(arr), j \in 1..Len(arr[1])}

ArrayMin(arr) == CHOOSE m \in Cells(arr) : \A v \in Cells(arr) : m <= v

ArrayMax(arr) == CHOOSE m \in Cells(arr) : \A v \in Cells(arr) : m >= v

\* a float division of numpy: 0/0 is nan and x/0 is inf, with a warning and
\* no exception; <<0, 0>> stands for nan, <<1, 0>> and <<-1, 0>> for the infs
NumpyDiv(a, b) == IF b = 0 THEN <<IF a = 0 THEN 0 ELSE Sgn(a), 0>> ELSE Rat(a, b)

IsNaN(q) == q = <<0, 0>>

\* (elevations - minimum) / (maximum - minimum)
Normalized(arr, minimum_, maximum_) ==
    [i \in 1..Len(arr) |->
        [j \in 1..Len(arr[i]) |-> NumpyDiv(arr[i][j] - minimum_, maximum_ - minimum_)]]

(***************************************************************************)
(* Images: size is (width, height) and px the rows of pixels; px is <<>>   *)
(* once the image is resampled (the Lanczos kernel is not modelled).       *)
(***************************************************************************)
\* Image.fromarray: a (rows, cols) array is an image cols wide and rows high
FromArray(arr) == [size |-> <<Len(arr[1]), Len(arr)>>, px |-> arr]

\* convert('L') of a float image: every value clipped to 0..255
Clip(v) == IF v <= 0 THEN 0 ELSE IF v >= 255 THEN 255 ELSE v

ConvertL(image) ==
    [size |-> image.size,
     px   |-> [r \in 1..image.size[2] |-> [c \in 1..image.size[1] |-> Clip(image.px[r][c])]]]

\* Rotate90 with the rotation left out
Rotate90_None(image) == image

\* transpose(Image.ROTATE_90): counter-clockwise
Rotate90(image) ==
    [size |-> <<image.size[2], image.size[1]>>,
     px   |-> [r \in 1..image.size[1] |->
                 [c \in 1..image.size[2] |-> image.px[c][image.size[1] + 1 - r]]]]

\* heightmap_width_pixels_corrected != heightmap_width_pixels
NeedsResize(width_pixels_corrected, width_pixels) == width_pixels_corrected # width_pixels

NewHeight(height_pixels, width_pixels, width_pixels_corrected) ==
    Round(Rat(height_pixels * width_pixels, width_pixels_corrected))

(***************************************************************************)
(* The elevation service, stubbed: terrain t gives every location an       *)
(* elevation in metres; terrain 0 is flat.                                 *)
(***************************************************************************)
Terrains == 0..MaxTerrain

Elevation(t, loc) ==
    IF t = 0 THEN 120
    ELSE ((t * (loc.latitude \div 10) + (loc.longitude \div 10)) % 700) - 100

\* the answers the service may give to a block: one result per location in
\* order ("ok"), the last result missing ("short"), one result too many ("long")
AnswerKinds == {"ok", "short", "long"}

Answer(t, kind, block) ==
    LET exact == [n \in 1..Len(block) |-> Elevation(t, block[n])]
    IN  CASE kind = "ok"    -> exact
          [] kind = "short" -> SubSeq(exact, 1, Len(exact) - 1)
          [] kind = "long"  -> Append(exact, exact[Len(exact)])

\* what makes lines 75-81 raise: urlopen (transport), json.loads (malformed
\* JSON), js_str['results'] and res['elevation'] (missing fields)
FailureKinds == {"URLError", "JSONDecodeError", "KeyError: results", "KeyError: elevation"}

(***************************************************************************)
(* State.  The variables carry the names of the program's variables.       *)
(***************************************************************************)
VARIABLES
    pc,                               \* where main is
    error,                            \* the exception that ended the run, or ""
    plane_center_on_earth,            \* main, line 98
    plane_bottom_left,                \* main, line 100
    plane_top_right,                  \* main, line 101
    heightmap_width_pixels,           \* main's argument
    step,                             \* main, line 105
    step_corrected,                   \* main, lines 107-109
    heightmap_width_pixels_corrected, \* main, lines 106-110
    heightmap_height_pixels,          \* main, line 114
    mapping,                          \* main, line 115: [shape, data]
    all_locations,                    \* request_heights, line 51
    num_locations,                    \* request_heights, line 52
    cur_loc,                          \* request_heights, line 65
    elevations_list,                  \* request_heights, line 62
    terrain,                          \* the service: the terrain it answers from
    requests,                         \* the service: the blocks posted so far
    responses,                        \* the service: the answers given so far
    heights,                          \* main, line 122: [some, v]
    minimum,                          \* main, line 124
    maximum,                          \* main, line 124
    norm_elevations,                  \* normalize_elevations, line 94: its local
    im,                               \* main, lines 126-131
    saved_file,                       \* the file at heightmap_save_path
    stdout,                           \* the lines printed
    p2e                               \* one call of plane_to_earth on its own

inputs == <<plane_center_on_earth, plane_bottom_left, plane_top_right,
            heightmap_width_pixels, terrain>>

corrected == <<step, step_corrected, heightmap_width_pixels_corrected,
               heightmap_height_pixels>>

locals == <<all_locations, num_locations, cur_loc, elevations_list>>

service == <<requests, responses>>

normalized == <<minimum, maximum, norm_elevations>>

outputs == <<im, saved_file, stdout>>

vars == <<pc, error, inputs, corrected, mapping, locals, service, heights,
          normalized, outputs, p2e>>

None == [some |-> FALSE, v |-> <<>>]

Some(x) == [some |-> TRUE, v |-> x]

NoImage == [size |-> <<0, 0>>, px |-> <<>>]

NoFile == [written |-> FALSE, image |-> NoImage]

NoCall == [pc |-> "idle", center |-> <<0, 0>>, point |-> <<0, 0>>,
           earth_local_radius |-> 0, latitude_radius |-> 0,
           raised |-> FALSE, result |-> <<0, 0>>]

(***************************************************************************)
(* The inputs drawn.  Plane coordinates are fixed-point kilometres: 100    *)
(* units are one metre.                                                    *)
(***************************************************************************)
Metres(m) == m * 100

Centers == {<<85521, 65450>>}

WidthsM == {0, 125, 625, 875, 1000}
             \cup {250 * k : k \in {MaxSide - 30, MaxSide - 10, MaxSide}}

HeightsM == {0, 250, 1000, 250 * MaxSide}

WidthPixels == {0, 1, 4, 40, 1000}

\* what every variable but pc, the inputs and p2e holds before main sets it
Unset ==
    /\ error = ""
    /\ step = <<0, 1>>
    /\ step_corrected = <<0, 1>>
    /\ heightmap_width_pixels_corrected = 0
    /\ heightmap_height_pixels = 0
    /\ mapping = [shape |-> <<0, 0>>, data |-> <<>>]
    /\ all_locations = <<>>
    /\ num_locations = 0
    /\ cur_loc = 0
    /\ elevations_list = <<>>
    /\ requests = <<>>
    /\ responses = <<>>
    /\ heights = None
    /\ minimum = 0
    /\ maximum = 0
    /\ norm_elevations = <<>>
    /\ im = NoImage
    /\ saved_file = NoFile
    /\ stdout = <<>>

\* main after lines 98-101: the projection centre and the projected corners
Init ==
    /\ pc = "correct"
    /\ plane_center_on_earth \in Centers
    /\ \E w \in WidthsM, h \in HeightsM :
          /\ plane_bottom_left = <<-(Metres(w) \div 2), -(Metres(h) \div 2)>>
          /\ plane_top_right = <<Metres(w) - (Metres(w) \div 2),
                                 Metres(h) - (Metres(h) \div 2)>>
    /\ heightmap_width_pixels \in WidthPixels
    /\ terrain \in Terrains
    /\ Unset
    /\ p2e = NoCall

Raise(e) == pc' = "crashed" /\ error' = e

(***************************************************************************)
(* main, lines 103-114: the resolution correction and the grid's height.   *)
(***************************************************************************)
ResolutionCorrection ==
    /\ pc = "correct"
    /\ LET width  == plane_top_right[1] - plane_bottom_left[1]
           height == plane_top_right[2] - plane_bottom_left[2]
       IN  IF heightmap_width_pixels = 0
           THEN /\ Raise("ZeroDivisionError")
                /\ UNCHANGED corrected
           ELSE /\ step' = Step(width, heightmap_width_pixels)
                /\ step_corrected' = StepCorrected(step')
                /\ heightmap_width_pixels_corrected' =
                       WidthPixelsCorrected(width, heightmap_width_pixels, step')
                /\ heightmap_height_pixels' = HeightPixels(height, step_corrected')
                /\ pc' = "build"
                /\ UNCHANGED error
    /\ UNCHANGED <<inputs, mapping, locals, service, heights, normalized, outputs, p2e>>

(***************************************************************************)
(* main, lines 115-120: the sample grid.                                   *)
(***************************************************************************)
BuildMapping ==
    /\ pc = "build"
    /\ LET cells == [i \in 1..heightmap_width_pixels_corrected |->
                       [j \in 1..heightmap_height_pixels |->
                          P2E_locals(plane_center_on_earth,
                                     CellPoint(plane_bottom_left, step_corrected,
                                               i - 1, j - 1))]]
       IN  IF \E i \in 1..heightmap_width_pixels_corrected,
                 j \in 1..heightmap_height_pixels : cells[i][j].raises
           THEN /\ Raise("ValueError")
                /\ UNCHANGED mapping
           ELSE /\ mapping' =
                     [shape |-> <<heightmap_width_pixels_corrected,
                                  heightmap_height_pixels>>,
                      data  |-> [i \in 1..heightmap_width_pixels_corrected |->
                                   [j \in 1..heightmap_height_pixels |->
                                      cells[i][j].result]]]
                /\ pc' = "flatten"
                /\ UNCHANGED error
    /\ UNCHANGED <<inputs, corrected, locals, service, heights, normalized, outputs, p2e>>

(***************************************************************************)
(* request_heights, lines 51-63: the flattened grid; None for no cell.     *)
(***************************************************************************)
Flatten ==
    /\ pc = "flatten"
    /\ LET locs == AllLocations(mapping)
       IN  IF IsEmpty(locs)
           THEN /\ heights' = None
                /\ pc' = "normalize"
                /\ UNCHANGED locals
           ELSE /\ all_locations' = locs
                /\ num_locations' = Len(locs)
                /\ elevations_list' = <<>>
                /\ cur_loc' = 0
                /\ pc' = IF 0 < Len(locs) THEN "loop" ELSE "assemble"
                /\ UNCHANGED heights
    /\ UNCHANGED <<error, inputs, corrected, mapping, service, normalized, outputs, p2e>>

\* IssueRequest without waiting for the answer: the loop goes on to post the
\* next block at once and only the last answer is waited for
IssueRequest_Pipelined ==
    /\ pc = "loop"
    /\ requests' = Append(requests,
                          Block(all_locations, cur_loc, BlockSize(num_locations, cur_loc)))
    /\ cur_loc' = IF NextLoc(cur_loc) < num_locations THEN NextLoc(cur_loc) ELSE cur_loc
    /\ pc' = IF NextLoc(cur_loc) < num_locations THEN "loop" ELSE "wait"
    /\ UNCHANGED <<error, inputs, corrected, mapping, all_locations, num_locations,
                   elevations_list, responses, heights, normalized, outputs, p2e>>

(***************************************************************************)
(* request_heights, lines 65-75: one block is posted; urlopen blocks.      *)
(***************************************************************************)
IssueRequest ==
    /\ pc = "loop"
    /\ requests' = Append(requests,
                          Block(all_locations, cur_loc, BlockSize(num_locations, cur_loc)))
    /\ pc' = "wait"
    /\ UNCHANGED <<error, inputs, corrected, mapping, locals, responses, heights,
                   normalized, outputs, p2e>>

(***************************************************************************)
(* request_heights, lines 75-81: the answer is read, parsed and appended;  *)
(* the loop goes to its next block or ends.                                *)
(***************************************************************************)
ReadResponse ==
    /\ pc = "wait"
    /\ \E kind \in AnswerKinds :
          LET results == Answer(terrain, kind, requests[Len(requests)])
          IN  /\ responses' = Append(responses, results)
              /\ elevations_list' = elevations_list \o results
    /\ cur_loc' = IF NextLoc(cur_loc) < num_locations THEN NextLoc(cur_loc) ELSE cur_loc
    /\ pc' = IF NextLoc(cur_loc) < num_locations THEN "loop" ELSE "assemble"
    /\ UNCHANGED <<error, inputs, corrected, mapping, all_locations, num_locations,
                   requests, heights, normalized, outputs, p2e>>

\* RequestFails with the failure caught and the block posted again
RequestFails_Retry ==
    /\ pc = "wait"
    /\ \E kind \in FailureKinds : error' = kind
    /\ pc' = "loop"
    /\ UNCHANGED <<inputs, corrected, mapping, locals, service, heights,
                   normalized, outputs, p2e>>

(***************************************************************************)
(* request_heights, lines 75-81: the request fails; nothing catches it.    *)
(***************************************************************************)
RequestFails ==
    /\ pc = "wait"
    /\ \E kind \in FailureKinds : Raise(kind)
    /\ UNCHANGED <<inputs, corrected, mapping, locals, service, heights,
                   normalized, outputs, p2e>>

(***************************************************************************)
(* request_heights, lines 83-89, and main, line 122: the grid of           *)
(* elevations is assembled and returned.                                   *)
(***************************************************************************)
Assemble ==
    /\ pc = "assemble"
    /\ IF \E i \in 1..mapping.shape[1], j \in 1..mapping.shape[2] :
             Indx(i - 1, j - 1, mapping.shape) + 1 > Len(elevations_list)
       THEN /\ Raise("IndexError")
            /\ UNCHANGED <<heights, locals>>
       ELSE /\ heights' = Some(Elevations(mapping.shape, elevations_list))
            /\ all_locations' = <<>>
            /\ num_locations' = 0
            /\ cur_loc' = 0
            /\ elevations_list' = <<>>
            /\ pc' = "normalize"
            /\ UNCHANGED error
    /\ UNCHANGED <<inputs, corrected, mapping, service, normalized, outputs, p2e>>

(***************************************************************************)
(* main, lines 123-124: del mapping; normalize_elevations(heights), which  *)
(* rebinds its own parameter and returns the minimum and the maximum.      *)
(***************************************************************************)
Normalize ==
    /\ pc = "normalize"
    /\ mapping' = [shape |-> <<0, 0>>, data |-> <<>>]
    /\ IF ~heights.some
       THEN /\ Raise("TypeError")
            /\ UNCHANGED normalized
       ELSE /\ minimum' = ArrayMin(heights.v)
            /\ maximum' = ArrayMax(heights.v)
            /\ norm_elevations' = Normalized(heights.v, minimum', maximum')
            /\ pc' = "render"
            /\ UNCHANGED error
    /\ UNCHANGED <<inputs, corrected, locals, service, heights, outputs, p2e>>

(***************************************************************************)
(* main, lines 126-128: the image of heights, 8-bit, rotated.              *)
(***************************************************************************)
Render ==
    /\ pc = "render"
    /\ im' = Rotate90(ConvertL(FromArray(heights.v)))
    /\ pc' = "resize"
    /\ UNCHANGED <<error, inputs, corrected, mapping, locals, service, heights,
                   normalized, saved_file, stdout, p2e>>

(***************************************************************************)
(* main, lines 129-131: the resampling to the requested width.  resize     *)
(* raises ValueError for a size below 1.                                   *)
(***************************************************************************)
Resize ==
    /\ pc = "resize"
    /\ IF NeedsResize(heightmap_width_pixels_corrected, heightmap_width_pixels)
       THEN LET new_height == NewHeight(heightmap_height_pixels, heightmap_width_pixels,
                                        heightmap_width_pixels_corrected)
            IN  IF heightmap_width_pixels < 1 \/ new_height < 1
                THEN /\ Raise("ValueError")
                     /\ UNCHANGED im
                ELSE /\ im' = [size |-> <<heightmap_width_pixels, new_height>>,
                               px   |-> <<>>]
                     /\ pc' = "save"
                     /\ UNCHANGED error
       ELSE /\ pc' = "save"
            /\ UNCHANGED <<error, im>>
    /\ UNCHANGED <<inputs, corrected, mapping, locals, service, heights,
                   normalized, saved_file, stdout, p2e>>

(***************************************************************************)
(* main, line 133.                                                         *)
(***************************************************************************)
Save ==
    /\ pc = "save"
    /\ saved_file' = [written |-> TRUE, image |-> im]
    /\ pc' = "print"
    /\ UNCHANGED <<error, inputs, corrected, mapping, locals, service, heights,
                   normalized, im, stdout, p2e>>

(***************************************************************************)
(* main, lines 134-136.                                                    *)
(***************************************************************************)
Report ==
    /\ pc = "print"
    /\ stdout' = <<[line |-> "Meters per pixel", value |-> RatMul(step, RatOfInt(1000))],
                   [line |-> "Min meters above sea level", value |-> RatOfInt(minimum)],
                   [line |-> "Max meters above sea level", value |-> RatOfInt(maximum)]>>
    /\ pc' = "done"
    /\ UNCHANGED <<error, inputs, corrected, mapping, locals, service, heights,
                   normalized, im, saved_file, p2e>>

Next ==
    \/ ResolutionCorrection
    \/ BuildMapping
    \/ Flatten
    \/ IssueRequest
    \/ ReadResponse
    \/ RequestFails
    \/ Assemble
    \/ Normalize
    \/ Render
    \/ Resize
    \/ Save
    \/ Report

Spec == Init /\ [][Next]_vars

(***************************************************************************)
(* plane_to_earth on its own: one call, its arguments drawn.               *)
(***************************************************************************)
\* the plane points drawn lie on a grid of 250 m, up to P2ESpan steps from
\* the centre in each direction
P2ESpan == 4

P2ECenters == {<<85521, 65450>>, <<0, 0>>, <<-52360, 314159>>}

P2EPoints == {<<Metres(250 * i), Metres(250 * j)>> :
                 i \in (-P2ESpan)..P2ESpan, j \in (-P2ESpan)..P2ESpan}

InitP2E ==
    /\ pc = "idle"
    /\ plane_center_on_earth = <<0, 0>>
    /\ plane_bottom_left = <<0, 0>>
    /\ plane_top_right = <<0, 0>>
    /\ heightmap_width_pixels = 0
    /\ terrain = 0
    /\ Unset
    /\ \E c \in P2ECenters, p \in P2EPoints :
          p2e = [NoCall EXCEPT !.pc = "called", !.center = c, !.point = p]

\* plane_to_earth, lines 38-42: the two radii
P2E_Radii ==
    /\ p2e.pc = "called"
    /\ LET l == P2E_locals(p2e.center, p2e.point)
       IN  p2e' = [p2e EXCEPT !.pc = "radii",
                              !.earth_local_radius = l.earth_local_radius,
                              !.latitude_radius = l.latitude_radius]
    /\ UNCHANGED <<pc, error, inputs, corrected, mapping, locals, service, heights,
                   normalized, outputs>>

\* plane_to_earth, lines 43-47: the angles and the point returned
P2E_Return ==
    /\ p2e.pc = "radii"
    /\ p2e' = [p2e EXCEPT !.pc = "returned",
                          !.raised = P2E_raises(p2e.center, p2e.point),
                          !.result = plane_to_earth(p2e.center, p2e.point)]
    /\ UNCHANGED <<pc, error, inputs, corrected, mapping, locals, service, heights,
                   normalized, outputs>>

NextP2E ==
    \/ P2E_Radii
    \/ P2E_Return

SpecP2E == InitP2E /\ [][NextP2E]_vars

(***************************************************************************)
(* The properties.                                                         *)
(***************************************************************************)
\* the number of cells of the grid handed to request_heights
NumCells == mapping.shape[1] * mapping.shape[2]

\* the number of blocks a grid of n cells is cut into
NumBlocks(n) == (n + num_locations_at_once - 1) \div num_locations_at_once

\* the service answered every request so far with exactly one result per
\* location, in the order submitted
WellBehaved ==
    \A k \in 1..Len(responses) : responses[k] = Answer(terrain, "ok", requests[k])

RECURSIVE ResultsCount(_)
ResultsCount(answers) ==
    IF answers = <<>> THEN 0 ELSE Len(answers[1]) + ResultsCount(Tail(answers))

InRequestLoop == pc \in {"loop", "wait", "assemble"}

\* C1: every request carries at most 1000 locations and every request but the
\* last one exactly 1000; the requests are, in the order issued, consecutive
\* slices of the flattened grid; and once the loop has ended, a grid of
\* N >= 1 cells has been sent in exactly ceil(N/1000) requests that cover
\* every cell once.
C1_Batching ==
    InRequestLoop =>
        /\ \A k \in 1..Len(requests) :
              /\ Len(requests[k]) <= 1000
              /\ Len(requests[k]) >= 1
              /\ k < Len(requests) => Len(requests[k]) = 1000
              /\ \A n \in 1..Len(requests[k]) :
                    /\ 1000 * (k - 1) + n <= num_locations
                    /\ requests[k][n] = all_locations[1000 * (k - 1) + n]
        /\ pc = "assemble" =>
              /\ num_locations = NumCells
              /\ Len(requests) = NumBlocks(num_locations)
              /\ 1000 * (Len(requests) - 1) + Len(requests[Len(requests)]) = num_locations

\* C1's case: a grid sent in three requests, the last one not full.
C1_Witness ==
    /\ pc = "assemble"
    /\ Len(requests) = 3
    /\ Len(requests[1]) = 1000
    /\ Len(requests[3]) < 1000

\* C2: when the service answers every request with one result per location
\* in order, the grid request_heights returns has the shape of mapping and
\* its cell (i, j) is the elevation of the location of mapping[i, j].
C2_Aligned ==
    (pc = "normalize" /\ heights.some /\ WellBehaved) =>
        /\ Len(heights.v) = mapping.shape[1]
        /\ \A i \in 1..mapping.shape[1] :
              /\ Len(heights.v[i]) = mapping.shape[2]
              /\ \A j \in 1..mapping.shape[2] :
                    heights.v[i][j] = Elevation(terrain, Location(mapping.data[i][j]))

\* C2's case: a grid that is not square, on a terrain that is not flat, whose
\* elevations came in more than one answer.
C2_Witness ==
    /\ pc = "normalize"
    /\ heights.some
    /\ WellBehaved
    /\ Len(responses) >= 2
    /\ terrain # 0
    /\ mapping.shape[1] # mapping.shape[2]
    /\ heights.v[1][1] # heights.v[2][1]

\* C3: the array main renders is the normalized grid: every cell handed to
\* Image.fromarray equals (v - min)/(max - min) and lies in [0, 1].
C3_RendersNormalized ==
    pc = "render" =>
        \A i \in 1..Len(heights.v), j \in 1..Len(heights.v[1]) :
            /\ RatOfInt(heights.v[i][j]) = norm_elevations[i][j]
            /\ 0 <= heights.v[i][j]
            /\ heights.v[i][j] <= 1

\* C4: for a uniform grid of elevations the normalizer divides nothing by
\* zero and its output holds no NaN.
C4_UniformHandled ==
    (pc = "render" /\ minimum = maximum) =>
        \A i \in 1..Len(norm_elevations), j \in 1..Len(norm_elevations[1]) :
            ~IsNaN(norm_elevations[i][j])

\* the plane width in whole metres
WidthM == (plane_top_right[1] - plane_bottom_left[1]) \div 100

\* C5: with step = width / W, if step is below 250 m then step_corrected is
\* 0.25 km and W_corrected is width / 0.25 rounded to the nearest integer (a
\* tie to the even one); otherwise step_corrected = step and W_corrected = W.
\* A step of exactly 250 m is left as it is.
C5_Correction ==
    (pc # "correct" /\ heightmap_width_pixels > 0) =>
        /\ step[1] * heightmap_width_pixels * 1000 = WidthM * step[2]
        /\ IF WidthM < 250 * heightmap_width_pixels
           THEN /\ step_corrected = <<1, 4>>
                /\ 2 * Abs(250 * heightmap_width_pixels_corrected - WidthM) <= 250
                /\ 2 * Abs(250 * heightmap_width_pixels_corrected - WidthM) = 250
                      => heightmap_width_pixels_corrected % 2 = 0
           ELSE /\ step_corrected = step
                /\ heightmap_width_pixels_corrected = heightmap_width_pixels
        /\ (WidthM = 1000 /\ heightmap_width_pixels = 1000)
              => (step_corrected = <<1, 4>> /\ heightmap_width_pixels_corrected = 4)

\* C5's case: a width of 1.0 km asked for in 1000 pixels is sampled in 4.
C5_Witness ==
    /\ pc = "build"
    /\ WidthM = 1000
    /\ heightmap_width_pixels = 1000
    /\ heightmap_width_pixels_corrected = 4

\* C6: when the request for batch k fails, the run has ended there: batch k
\* was posted once and no batch after it, request_heights returned no grid,
\* no image was written and nothing was printed.
C6_FailurePropagates ==
    error \in FailureKinds =>
        /\ pc = "crashed"
        /\ Len(requests) = (cur_loc \div num_locations_at_once) + 1
        /\ Len(responses) = Len(requests) - 1
        /\ ~heights.some
        /\ im = NoImage
        /\ ~saved_file.written
        /\ Len(stdout) = 0

\* C6's case: the second batch fails after the first one was answered.
C6_Witness ==
    /\ error \in FailureKinds
    /\ Len(requests) = 2
    /\ Len(elevations_list) >= 1000

\* C7: plane_to_earth computes the radius of curvature from the latitude of
\* the projection centre, so that it is the same for every plane point.
C7_RadiusFromCenter ==
    p2e.pc \in {"radii", "returned"} =>
        /\ p2e.earth_local_radius = LocalRadius(p2e.center[1])
        /\ p2e.latitude_radius = FMul(LocalRadius(p2e.center[1]), Cos(p2e.center[1]))

\* C8: the image is resampled if and only if W_corrected # W, and then to
\* the width W and the height H * W / W_corrected rounded; otherwise it keeps
\* its rotated size W_corrected x H.  The image saved is W wide.
C8_SavedWidth ==
    /\ pc = "resize" => im.size = <<heightmap_width_pixels_corrected, heightmap_height_pixels>>
    /\ pc \in {"save", "print", "done"} =>
          /\ (Len(im.px) = 0) <=> (heightmap_width_pixels_corrected # heightmap_width_pixels)
          /\ IF heightmap_width_pixels_corrected # heightmap_width_pixels
             THEN /\ im.size[1] = heightmap_width_pixels
                  /\ 2 * Abs(im.size[2] * heightmap_width_pixels_corrected
                               - heightmap_height_pixels * heightmap_width_pixels)
                        <= heightmap_width_pixels_corrected
             ELSE im.size = <<heightmap_width_pixels_corrected, heightmap_height_pixels>>
          /\ im.size[1] = heightmap_width_pixels
    /\ saved_file.written =>
          /\ saved_file.image = im
          /\ saved_file.image.size[1] = heightmap_width_pixels

\* C8's case: a corrected grid that is not square was rendered, resampled to
\* the requested width and saved.
C8_Witness ==
    /\ pc = "done"
    /\ saved_file.written
    /\ heightmap_width_pixels_corrected # heightmap_width_pixels
    /\ heightmap_width_pixels_corrected # heightmap_height_pixels
    /\ saved_file.image.size[2] # heightmap_height_pixels

\* C9: request_heights returns None exactly when the grid has no cell, and
\* then it has posted no request; with at least one cell and a service that
\* answers every request in full it returns a grid of the grid's shape.
C9_NoneIffEmpty ==
    /\ pc = "normalize" =>
          /\ ~heights.some <=> NumCells = 0
          /\ ~heights.some => Len(requests) = 0
          /\ heights.some =>
                /\ Len(heights.v) = mapping.shape[1]
                /\ \A i \in 1..Len(heights.v) : Len(heights.v[i]) = mapping.shape[2]
    /\ (pc = "crashed" /\ error = "IndexError") => ~WellBehaved

\* C9's case: a grid with columns and no rows, for which None is returned.
C9_Witness ==
    /\ pc = "normalize"
    /\ ~heights.some
    /\ mapping.shape[1] >= 1
    /\ Len(requests) = 0

\* C10: at most one request is outstanding; a request is posted only when
\* every earlier one has been answered and its results appended, and it is
\* the block that follows the ones posted; the grid is assembled only after
\* the answer to the last block has been appended.
C10_OneAtATime ==
    /\ [](Len(requests) - Len(responses) \in {0, 1})
    /\ [][/\ Len(requests') # Len(requests) =>
                /\ Len(requests') = Len(requests) + 1
                /\ Len(responses) = Len(requests)
                /\ Len(elevations_list) = ResultsCount(responses)
                /\ requests'[Len(requests')][1]
                      = all_locations[num_locations_at_once * Len(requests) + 1]
          /\ (heights'.some /\ ~heights.some) =>
                /\ Len(responses) = Len(requests)
                /\ Len(requests) = NumBlocks(num_locations)
                /\ Len(elevations_list) = ResultsCount(responses)]_vars

\* C10's case: the third request is outstanding, two answers appended.
C10_Witness ==
    /\ pc = "wait"
    /\ Len(requests) = 3
    /\ Len(responses) = 2
    /\ Len(elevations_list) = ResultsCount(responses)

====
